---- MODULE Spec2Model ----
(***************************************************************************)
(* Model of the Leaf entity of 3Dtree (src/3Dtree/leaf.cpp).               *)
(*                                                                         *)
(* Lengths are fixed-point integers in units of 0.01 scene units, so the   *)
(* fall step 0.05f is 5 and the fall offset 0.5f is 50. Angles are whole   *)
(* degrees. Ages are in units of 0.01 and scales in units of 0.0001.       *)
(* Directions produced by QVector3D::normalized() are exact rationals      *)
(* [x, y, z, den]; the branch positions the model draws from all give      *)
(* integer lengths, so the rationals are exact.                            *)
(*                                                                         *)
(* The engine (Qt) is modelled by what the calls in leaf.cpp rely on: a    *)
(* signal keeps one entry per connect() call and delivers in connection    *)
(* order, deleteLater() only posts a deferred delete, and destroying a     *)
(* QObject removes its connections.                                        *)
(***************************************************************************)
EXTENDS Integers, Sequences, FiniteSets, TLC

\* ------------------------------------------------------------------ bounds
NumLeaves == 2
MaxConnections == 3
MaxDeleteCalls == 2

Leaves == 1 .. NumLeaves

\* ------------------------------------------------- constants of the source
FallStep == 5
FallOffset == 50
FallAngleStep == 15
FullAge == 100
DefaultScale == 10000

\* ------------------------------------------------------------- input sets
\* (start, end) positions a parent branch can hold.
BranchPairs ==
    { << <<0, 0, 0>>, <<0, 10, 0>> >>,
      << <<0, -8, 0>>, <<3, 4, 4>> >>,
      << <<0, 10, 0>>, <<0, -3, 0>> >>,
      << <<0, 0, 0>>, <<0, 0, 0>> >> }

\* The positions the many-leaf specification draws from.
ForestPairs ==
    { << <<0, 0, 0>>, <<0, 10, 0>> >>,
      << <<0, 0, 0>>, <<0, 0, 0>> >> }

InitialAngles == {0, 350}
ForestAngles == {350}
Ages == {-50, 0, 40, 100, 150}
Angles == {90}
Jitters == {0, 1}
Colors == {"darkGreen", "autumn"}
BaseScales == {10}
InitialCounters == {0, 3}
SoloCounters == {0}
InitialInstanceCounts == {5}

\* ---------------------------------------------------------------- vectors
Abs(n) == IF n < 0 THEN -n ELSE n

\* The element of a one-element set: TheOne({ e(v) : v \in {x} }) is e(x),
\* with x evaluated once.
TheOne(S) == CHOOSE x \in S : TRUE

Max(S) == CHOOSE n \in S : \A k \in S : k <= n

\* The greatest common divisor of a set of naturals that holds a positive one.
GCD(S) ==
    TheOne({ Max({d \in 1 .. Max(T) : \A n \in T : n % d = 0}) : T \in {S} })

ISqrt(n) == CHOOSE r \in 0 .. n : r * r <= n /\ (r + 1) * (r + 1) > n

VSub(a, b) == << a[1] - b[1], a[2] - b[2], a[3] - b[3] >>

\* A rational vector in lowest terms.
RVec(x, y, z, den) ==
    TheOne({ [x |-> x \div g, y |-> y \div g, z |-> z \div g, den |-> den \div g] :
             g \in {GCD({Abs(x), Abs(y), Abs(z), den})} })

ZeroDir == [x |-> 0, y |-> 0, z |-> 0, den |-> 1]
UpDir == [x |-> 0, y |-> 1, z |-> 0, den |-> 1]
FallbackAxis == [x |-> 1, y |-> 0, z |-> 0, den |-> 1]

\* QVector3D::normalized(): the null vector stays null.
Length(v) ==
    IF v[1] = 0 /\ v[3] = 0 THEN Abs(v[2])
    ELSE ISqrt(v[1] * v[1] + v[2] * v[2] + v[3] * v[3])

Normalized(v) ==
    TheOne({ IF Length(w) = 0 THEN ZeroDir ELSE RVec(w[1], w[2], w[3], Length(w)) :
             w \in {v} })

\* QVector3D::crossProduct of two directions.
CrossProduct(a, b) ==
    RVec(a.y * b.z - a.z * b.y,
         a.z * b.x - a.x * b.z,
         a.x * b.y - a.y * b.x,
         a.den * b.den)

\* QVector3D::dotProduct of two directions, as a rational [num, den].
DotProduct(a, b) ==
    TheOne({ [num |-> n \div GCD({Abs(n), d}), den |-> d \div GCD({Abs(n), d})] :
             n \in {a.x * b.x + a.y * b.y + a.z * b.z}, d \in {a.den * b.den} })

IsNull(a) == a.x = 0 /\ a.y = 0 /\ a.z = 0

\* ------------------------------------------------------------------ state
VARIABLES
    leaf,                    \* the Leaf objects: LeafPrivate and the transform/material they own
    branch,                  \* per leaf, the memory of the parent branch's start/end positions
    timerConnections,        \* the animation timer's timeout connections, in connect() order
    entityCounter,           \* the shared quint64 counter (a negative value stands for a wrap below zero)
    instanceCount,           \* the shared mesh's instance count
    c_useInstancedRendering, \* constants.hpp, fixed for a run
    c_leafBaseScale,         \* constants.hpp, fixed for a run
    initialCounter,          \* history: the counter before any leaf was constructed
    deleteLaterCalls,        \* history: per leaf, the deleteLater() calls made
    instanceDecrements,      \* history: per leaf, the instance-count decrements made
    handlerRuns              \* history: per leaf, the timeout() runs of the latest timer dispatch

vars == << leaf, branch, timerConnections, entityCounter, instanceCount,
           c_useInstancedRendering, c_leafBaseScale, initialCounter,
           deleteLaterCalls, instanceDecrements, handlerRuns >>

\* The rotation of a default-constructed QTransform.
IdentityRotation ==
    [set |-> FALSE, axis |-> ZeroDir, cosPlainAngle |-> [num |-> 0, den |-> 1],
     jitter |-> 0, branch |-> ZeroDir, angle |-> 0]

\* A leaf that has not been constructed yet.
NoLeaf ==
    [state |-> "unborn",
     startRef |-> "branch", endRef |-> "branch",
     fallVectorStartPos |-> <<0, 0, 0>>, fallVectorEndPos |-> <<0, 0, 0>>,
     fallAngle |-> 0,
     translation |-> <<0, 0, 0>>, scale |-> DefaultScale,
     rotation |-> IdentityRotation,
     diffuse |-> "none",
     deletePending |-> FALSE]

\* *( d->m_startBranchPos ) and *( d->m_endBranchPos ): B is the branch memory.
StartPos(L, B) == IF L.startRef = "own" THEN L.fallVectorStartPos ELSE B.start
EndPos(L, B) == IF L.endRef = "own" THEN L.fallVectorEndPos ELSE B.end

\* Mutant: the constructor forgets ++m_entityCounter.
CounterAfterConstruction_NoIncrement(c) == c

\* LeafPrivate::LeafPrivate, its effect on the shared counter.
CounterAfterConstruction(c) == c + 1

\* LeafPrivate::~LeafPrivate, its effect on the shared counter.
CounterAfterDestruction(c) == c - 1

\* Leaf::Leaf with LeafPrivate::init: angle is the random fall angle drawn.
NewLeaf(B, angle) ==
    [NoLeaf EXCEPT !.state = "alive",
                   !.diffuse = "darkGreen",
                   !.translation = B.end,
                   !.fallAngle = angle]

\* Leaf::setColor
setColor(L, c) == [L EXCEPT !.diffuse = c]

\* Mutant: the clamp at 0 is missing.
setAge_NoLowerClamp(L, age, base) ==
    [L EXCEPT !.scale = base * (IF age > FullAge THEN FullAge ELSE age)]

\* Leaf::setAge
setAge(L, age, base) ==
    LET a == IF age > FullAge THEN FullAge
             ELSE IF age < 0 THEN 0 ELSE age
    IN  [L EXCEPT !.scale = base * a]

\* Leaf::updatePosition
updatePosition(L, B) == [L EXCEPT !.translation = EndPos(L, B)]

\* Mutant: the isNull() test is missing.
RotationAxis_NoFallback(br) == CrossProduct(br, UpDir)

\* The axis Leaf::rotate hands to fromAxesAndAngles.
RotationAxis(br) ==
    TheOne({ IF IsNull(axis) THEN FallbackAxis ELSE axis :
             axis \in {CrossProduct(br, UpDir)} })

\* Leaf::rotate: j is the random jitter drawn.
rotate(L, B, angle, j) ==
    TheOne({ [L EXCEPT !.rotation =
                 [set |-> TRUE,
                  axis |-> RotationAxis(br),
                  cosPlainAngle |-> DotProduct(br, UpDir),
                  jitter |-> j,
                  branch |-> br,
                  angle |-> angle]] :
             br \in {Normalized(VSub(EndPos(L, B), StartPos(L, B)))} })

\* Mutant: m_startBranchPos keeps pointing into the branch.
fallAndDie_KeepsStartRef(L, B) ==
    TheOne({ [L EXCEPT !.fallVectorEndPos = e,
                       !.fallVectorStartPos = << e[1], e[2] - FallOffset, e[3] >>,
                       !.endRef = "own"] :
             e \in {EndPos(L, B)} })

\* Leaf::fallAndDie, its effect on the leaf (the connect is in the action).
fallAndDie(L, B) ==
    TheOne({ [L EXCEPT !.fallVectorEndPos = e,
                       !.fallVectorStartPos = << e[1], e[2] - FallOffset, e[3] >>,
                       !.startRef = "own",
                       !.endRef = "own"] :
             e \in {EndPos(L, B)} })

\* Leaf::timeout, the branch taken once the leaf is on the ground.
Landed(L, B) == EndPos(L, B)[2] <= 0

\* Mutant: updatePosition() runs before the end position is lowered.
FallOneStep_StaleTranslation(L, B, j) ==
    TheOne({ [r EXCEPT !.fallVectorEndPos = e,
                       !.fallVectorStartPos = << e[1], e[2] - FallOffset, e[3] >>,
                       !.fallAngle = @ + FallAngleStep] :
             r \in {updatePosition(rotate(L, B, L.fallAngle, j), B)},
             e \in {<< L.fallVectorEndPos[1], L.fallVectorEndPos[2] - FallStep,
                       L.fallVectorEndPos[3] >>} })

\* Mutant: the start vector is not recomputed.
FallOneStep_StaleStart(L, B, j) ==
    TheOne({ updatePosition(
                [r EXCEPT !.fallVectorEndPos = e,
                          !.fallAngle = @ + FallAngleStep], B) :
             r \in {rotate(L, B, L.fallAngle, j)},
             e \in {<< L.fallVectorEndPos[1], L.fallVectorEndPos[2] - FallStep,
                       L.fallVectorEndPos[3] >>} })

\* Leaf::timeout, the falling branch.
FallOneStep(L, B, j) ==
    TheOne({ updatePosition(
                [r EXCEPT !.fallVectorEndPos = e,
                          !.fallVectorStartPos = << e[1], e[2] - FallOffset, e[3] >>,
                          !.fallAngle = @ + FallAngleStep], B) :
             r \in {rotate(L, B, L.fallAngle, j)},
             e \in {<< L.fallVectorEndPos[1], L.fallVectorEndPos[2] - FallStep,
                       L.fallVectorEndPos[3] >>} })

\* Mutant: a landed leaf never calls deleteLater().
timeout_NoDeleteLater(L, B, j, instanced) ==
    IF Landed(L, B)
    THEN [leaf |-> L, deleteLater |-> 0, decrement |-> IF instanced THEN 1 ELSE 0]
    ELSE [leaf |-> FallOneStep(L, B, j), deleteLater |-> 0, decrement |-> 0]

\* Leaf::timeout: the leaf afterwards, and the deleteLater() and
\* setInstanceCount( instanceCount() - 1 ) calls it made.
timeout(L, B, j, instanced) ==
    IF Landed(L, B)
    THEN [leaf |-> [L EXCEPT !.deletePending = TRUE],
          deleteLater |-> 1,
          decrement |-> IF instanced THEN 1 ELSE 0]
    ELSE [leaf |-> FallOneStep(L, B, j), deleteLater |-> 0, decrement |-> 0]

\* ---------------------------------------------------------------- actions
Alive(l) == leaf[l].state = "alive"

\* The number of connections of leaf l to the timer's timeout signal.
RECURSIVE Count(_, _)
Count(seq, l) ==
    IF seq = << >> THEN 0
    ELSE (IF Head(seq) = l THEN 1 ELSE 0) + Count(Tail(seq), l)

Connections(l) == Count(timerConnections, l)

NoRuns == [l \in Leaves |-> 0]

BranchAt(p) == [alive |-> TRUE, start |-> p[1], end |-> p[2]]

\* new Leaf( startBranchPos, endBranchPos, ..., entityCounter, parent )
Construct(l, angle) ==
    /\ leaf[l].state = "unborn"
    /\ branch[l].alive
    /\ leaf' = [leaf EXCEPT ![l] = NewLeaf(branch[l], angle)]
    /\ entityCounter' = CounterAfterConstruction(entityCounter)
    /\ handlerRuns' = NoRuns
    /\ UNCHANGED << branch, timerConnections, instanceCount, c_useInstancedRendering,
                    c_leafBaseScale, initialCounter, deleteLaterCalls, instanceDecrements >>

\* The parts of the state no call on a leaf other than timeout() touches.
OnlyLeafChanges ==
    /\ handlerRuns' = NoRuns
    /\ UNCHANGED << branch, timerConnections, entityCounter, instanceCount,
                    c_useInstancedRendering, c_leafBaseScale, initialCounter,
                    deleteLaterCalls, instanceDecrements >>

SetColor(l, c) ==
    /\ Alive(l)
    /\ leaf' = [leaf EXCEPT ![l] = setColor(leaf[l], c)]
    /\ OnlyLeafChanges

SetAge(l, age) ==
    /\ Alive(l)
    /\ leaf' = [leaf EXCEPT ![l] = setAge(leaf[l], age, c_leafBaseScale)]
    /\ OnlyLeafChanges

UpdatePosition(l) ==
    /\ Alive(l)
    /\ leaf' = [leaf EXCEPT ![l] = updatePosition(leaf[l], branch[l])]
    /\ OnlyLeafChanges

Rotate(l, angle, j) ==
    /\ Alive(l)
    /\ leaf' = [leaf EXCEPT ![l] = rotate(leaf[l], branch[l], angle, j)]
    /\ OnlyLeafChanges

\* Leaf::fallAndDie: connect() adds a connection on every call.
FallAndDie(l) ==
    /\ Alive(l)
    /\ Len(timerConnections) < MaxConnections
    /\ leaf' = [leaf EXCEPT ![l] = fallAndDie(leaf[l], branch[l])]
    /\ timerConnections' = Append(timerConnections, l)
    /\ handlerRuns' = NoRuns
    /\ UNCHANGED << branch, entityCounter, instanceCount, c_useInstancedRendering,
                    c_leafBaseScale, initialCounter, deleteLaterCalls, instanceDecrements >>

\* One delivery of the timeout signal to leaf l. S is the state so far.
Deliver(S, l, j) ==
    TheOne({ [leaf |-> [S.leaf EXCEPT ![l] = r.leaf],
              instanceCount |-> S.instanceCount - r.decrement,
              deleteLaterCalls |-> [S.deleteLaterCalls EXCEPT ![l] = @ + r.deleteLater],
              instanceDecrements |-> [S.instanceDecrements EXCEPT ![l] = @ + r.decrement],
              handlerRuns |-> [S.handlerRuns EXCEPT ![l] = @ + 1]] :
             r \in {timeout(S.leaf[l], branch[l], j, c_useInstancedRendering)} })

\* One dispatch of QTimer::timeout: the connected slots run one after the
\* other, in the order given.
RECURSIVE Dispatch(_, _, _)
Dispatch(order, S, jit) ==
    IF order = << >> THEN S
    ELSE TheOne({ Dispatch(Tail(order), D, jit) :
                  D \in {Deliver(S, Head(order), jit[Head(order)])} })

BeforeDispatch ==
    [leaf |-> leaf, instanceCount |-> instanceCount,
     deleteLaterCalls |-> deleteLaterCalls,
     instanceDecrements |-> instanceDecrements,
     handlerRuns |-> NoRuns]

\* The animation timer fires.
Tick(jit) ==
    \E R \in {Dispatch(timerConnections, BeforeDispatch, jit)} :
        /\ timerConnections # << >>
        /\ \A l \in Leaves : Alive(l) => deleteLaterCalls[l] < MaxDeleteCalls
        /\ leaf' = R.leaf
        /\ instanceCount' = R.instanceCount
        /\ deleteLaterCalls' = R.deleteLaterCalls
        /\ instanceDecrements' = R.instanceDecrements
        /\ handlerRuns' = R.handlerRuns
        /\ UNCHANGED << branch, timerConnections, entityCounter,
                        c_useInstancedRendering, c_leafBaseScale, initialCounter >>

\* Leaf::~Leaf with ~LeafPrivate; QObject's destructor drops the connections.
Destroy(l) ==
    /\ leaf' = [leaf EXCEPT ![l] = [NoLeaf EXCEPT !.state = "destroyed"]]
    /\ timerConnections' = SelectSeq(timerConnections, LAMBDA k : k # l)
    /\ entityCounter' = CounterAfterDestruction(entityCounter)
    /\ handlerRuns' = NoRuns
    /\ UNCHANGED << branch, instanceCount, c_useInstancedRendering, c_leafBaseScale,
                    initialCounter, deleteLaterCalls, instanceDecrements >>

\* The event loop handles the deferred delete posted by deleteLater().
ProcessDeferredDelete(l) ==
    /\ Alive(l)
    /\ leaf[l].deletePending
    /\ Destroy(l)

\* The owner deletes the leaf directly.
DeleteLeaf(l) ==
    /\ Alive(l)
    /\ Destroy(l)

OnlyBranchChanges ==
    /\ handlerRuns' = NoRuns
    /\ UNCHANGED << leaf, timerConnections, entityCounter, instanceCount,
                    c_useInstancedRendering, c_leafBaseScale, initialCounter,
                    deleteLaterCalls, instanceDecrements >>

\* The parent branch grows or moves.
BranchMove(l, p) ==
    /\ branch[l].alive
    /\ branch' = [branch EXCEPT ![l] = BranchAt(p)]
    /\ OnlyBranchChanges

\* The parent branch is destroyed: the memory its positions lay in holds
\* whatever is written there from then on (p, at first).
BranchDestroy(l, p) ==
    /\ branch[l].alive
    /\ branch' = [branch EXCEPT ![l] = [BranchAt(p) EXCEPT !.alive = FALSE]]
    /\ OnlyBranchChanges

\* The memory of a destroyed branch is written again.
BranchMemoryReuse(l, p) ==
    /\ ~ branch[l].alive
    /\ branch' = [branch EXCEPT ![l] = [BranchAt(p) EXCEPT !.alive = FALSE]]
    /\ OnlyBranchChanges

\* --------------------------------------------------------- specifications
InitWith(leaves, pairs, counters) ==
    /\ leaf = [l \in Leaves |-> NoLeaf]
    /\ \E p \in [leaves -> pairs] :
          branch = [l \in Leaves |->
                      IF l \in leaves THEN BranchAt(p[l])
                      ELSE BranchAt(<< <<0, 0, 0>>, <<0, 0, 0>> >>)]
    /\ timerConnections = << >>
    /\ initialCounter \in counters
    /\ entityCounter = initialCounter
    /\ instanceCount \in InitialInstanceCounts
    /\ c_useInstancedRendering \in BOOLEAN
    /\ c_leafBaseScale \in BaseScales
    /\ deleteLaterCalls = [l \in Leaves |-> 0]
    /\ instanceDecrements = [l \in Leaves |-> 0]
    /\ handlerRuns = NoRuns

\* One leaf, every operation, every branch position.
SoloLeaves == {l \in Leaves : \A k \in Leaves : l <= k}

Init == InitWith(SoloLeaves, BranchPairs, SoloCounters)

Next ==
    \/ \E l \in SoloLeaves, angle \in InitialAngles : Construct(l, angle)
    \/ \E l \in SoloLeaves, c \in Colors : SetColor(l, c)
    \/ \E l \in SoloLeaves, age \in Ages : SetAge(l, age)
    \/ \E l \in SoloLeaves : UpdatePosition(l)
    \/ \E l \in SoloLeaves, angle \in Angles, j \in Jitters : Rotate(l, angle, j)
    \/ \E l \in SoloLeaves : FallAndDie(l)
    \/ \E j \in Jitters : Tick([l \in Leaves |-> j])
    \/ \E l \in SoloLeaves : ProcessDeferredDelete(l)
    \/ \E l \in SoloLeaves : DeleteLeaf(l)
    \/ \E l \in SoloLeaves, p \in BranchPairs : BranchMove(l, p)
    \/ \E l \in SoloLeaves, p \in BranchPairs : BranchDestroy(l, p)
    \/ \E l \in SoloLeaves, p \in BranchPairs : BranchMemoryReuse(l, p)

Spec == Init /\ [][Next]_vars

\* Several leaves on one timer, one counter and one mesh.
ForestInit == InitWith(Leaves, ForestPairs, InitialCounters)

ForestNext ==
    \/ \E l \in Leaves, angle \in ForestAngles : Construct(l, angle)
    \/ \E l \in Leaves : FallAndDie(l)
    \/ \E j \in Jitters : Tick([l \in Leaves |-> j])
    \/ \E l \in Leaves : ProcessDeferredDelete(l)
    \/ \E l \in Leaves : DeleteLeaf(l)

ForestSpec == ForestInit /\ [][ForestNext]_vars

\* The timer keeps firing and the event loop keeps handling deferred deletes.
Fairness ==
    /\ WF_vars(\E j \in Jitters : Tick([l \in Leaves |-> j]))
    /\ \A l \in Leaves : WF_vars(ProcessDeferredDelete(l))

\* One leaf from construction to removal, on a branch that moves or dies.
FallNext ==
    \/ \E l \in SoloLeaves, angle \in InitialAngles : Construct(l, angle)
    \/ \E l \in SoloLeaves : FallAndDie(l)
    \/ \E j \in Jitters : Tick([l \in Leaves |-> j])
    \/ \E l \in SoloLeaves : ProcessDeferredDelete(l)
    \/ \E l \in SoloLeaves : DeleteLeaf(l)
    \/ \E l \in SoloLeaves, p \in BranchPairs : BranchMove(l, p)
    \/ \E l \in SoloLeaves, p \in BranchPairs : BranchDestroy(l, p)

FairSpec == Init /\ [][FallNext]_vars /\ Fairness

\* ----------------------------------------------------------------- claims
\* fallAndDie() has been invoked on leaf l, which is still alive.
Falling(l) == Alive(l) /\ Connections(l) > 0

\* C1: over the life of a leaf, deletion is scheduled exactly once and, with
\* instanced rendering, the mesh's instance count is decremented exactly once.
C1_ScheduledAndDecrementedOnce ==
    \A l \in Leaves :
        (leaf[l].deletePending \/ deleteLaterCalls[l] > 0) =>
            /\ deleteLaterCalls[l] = 1
            /\ c_useInstancedRendering => instanceDecrements[l] = 1
            /\ ~ c_useInstancedRendering => instanceDecrements[l] = 0

\* C2: the counter is its initial value plus the number of leaves constructed
\* and not yet destroyed, and it never wraps below zero.
C2_CounterTracksLiveLeaves ==
    /\ entityCounter = initialCounter + Cardinality({l \in Leaves : Alive(l)})
    /\ entityCounter >= 0

C2_Witness ==
    \E l, k \in Leaves :
        /\ leaf[l].state = "destroyed"
        /\ Alive(k) /\ leaf[k].deletePending
        /\ initialCounter = 0 /\ entityCounter = 1

\* C3: once fallAndDie() has been invoked, the start and end references
\* designate the leaf's own fall vectors, so whatever the branch's memory
\* holds, the positions the leaf reads are its own.
C3_FallingLeafReadsOwnVectors ==
    \A l \in Leaves :
        Falling(l) =>
            /\ leaf[l].startRef = "own" /\ leaf[l].endRef = "own"
            /\ \A p \in BranchPairs :
                  /\ StartPos(leaf[l], BranchAt(p)) = leaf[l].fallVectorStartPos
                  /\ EndPos(leaf[l], BranchAt(p)) = leaf[l].fallVectorEndPos

C3_Witness ==
    \E l \in Leaves :
        /\ Falling(l)
        /\ ~ branch[l].alive
        /\ branch[l].end # leaf[l].fallVectorEndPos
        /\ leaf[l].rotation.set

\* What C4 says of the positions, angle and translation after n timeout()
\* calls, from the values S before them.
RECURSIVE C4_After(_, _)
C4_After(n, S) ==
    IF n = 0 THEN S
    ELSE C4_After(n - 1,
            IF S.end[2] > 0
            THEN LET e == << S.end[1], S.end[2] - 5, S.end[3] >>
                 IN  [end |-> e, start |-> << e[1], e[2] - 50, e[3] >>,
                      angle |-> S.angle + 15, translation |-> e]
            ELSE S)

C4_Observed(L, B) ==
    [end |-> EndPos(L, B), start |-> StartPos(L, B),
     angle |-> L.fallAngle, translation |-> L.translation]

\* C4: a timeout() call above the ground lowers the end position by the
\* step, puts the start position 0.5 below it, adds 15 to the fall angle and
\* translates the transform to the new end position; a call on the ground
\* changes none of them, nor the rotation.
C4_TimeoutStep ==
    [][\A l \in Leaves :
          (Falling(l) /\ handlerRuns'[l] >= 1) =>
              /\ C4_Observed(leaf'[l], branch'[l]) =
                    C4_After(handlerRuns'[l], C4_Observed(leaf[l], branch[l]))
              /\ EndPos(leaf[l], branch[l])[2] <= 0 =>
                    leaf'[l].rotation = leaf[l].rotation]_vars

C4_Witness ==
    \E l \in Leaves :
        /\ Falling(l)
        /\ handlerRuns[l] = 1
        /\ leaf[l].fallVectorEndPos = <<0, 5, 0>>
        /\ leaf[l].translation = <<0, 5, 0>>

C6_Clamp(a) == IF a < 0 THEN 0 ELSE IF a > 100 THEN 100 ELSE a

\* C6: setAge(a) sets the scale to baseScale * clamp(a, 0, 1) and changes
\* nothing else, in every lifecycle state.
C6_SetAgeScalesOnly ==
    [][\A l \in Leaves, a \in Ages :
          SetAge(l, a) =>
              /\ leaf'[l] = [leaf[l] EXCEPT !.scale = c_leafBaseScale * C6_Clamp(a)]
              /\ UNCHANGED << branch, timerConnections, entityCounter, instanceCount,
                              deleteLaterCalls, instanceDecrements >>]_vars

C6_Witness ==
    \E l \in Leaves :
        /\ Falling(l)
        /\ leaf[l].scale = 0
        /\ leaf[l].fallAngle # 0 /\ leaf[l].fallAngle # 350

IsUnit(a) == a.x * a.x + a.y * a.y + a.z * a.z = a.den * a.den

\* C7 as stated: the axis is the fallback axis when the branch direction is
\* parallel to up, and otherwise the normalized cross product of the branch
\* direction and up.
C7_AxisIsNormalizedCross ==
    \A l \in Leaves :
        (Alive(l) /\ leaf[l].rotation.set) =>
            LET b == leaf[l].rotation.branch
                a == leaf[l].rotation.axis
            IN  IF b.x = 0 /\ b.z = 0 THEN a = FallbackAxis
                ELSE /\ IsUnit(a)
                     /\ a.y = 0
                     /\ a.x * b.x + a.z * b.z = 0
                     /\ a.z * b.x - a.x * b.z > 0

\* C7 as amended: the axis is the fallback axis when end - start is parallel
\* to up (or null), and otherwise (end - start) x up divided by the length of
\* end - start: the cross product of the unit branch direction and up, which
\* rotate() does not normalize.
C7_AxisIsCrossOfUnitBranch ==
    [][\A l \in Leaves :
          (Alive(l) /\ Alive(l)' /\ leaf'[l].rotation # leaf[l].rotation) =>
              LET d == VSub(EndPos(leaf[l], branch[l]), StartPos(leaf[l], branch[l]))
                  a == leaf'[l].rotation.axis
                  len == Length(d)
              IN  IF d[1] = 0 /\ d[3] = 0 THEN a = FallbackAxis
                  ELSE /\ len * len = d[1] * d[1] + d[2] * d[2] + d[3] * d[3]
                       /\ a.x * len = (0 - d[3]) * a.den
                       /\ a.y = 0
                       /\ a.z * len = d[1] * a.den]_vars

C7_Witness ==
    \E l \in Leaves :
        /\ Alive(l)
        /\ leaf[l].rotation.set
        /\ leaf[l].rotation.axis = [x |-> -4, y |-> 0, z |-> 3, den |-> 13]

\* The delivery orders of the connections in seq.
Orders(seq) ==
    { [i \in 1 .. Len(seq) |-> seq[f[i]]] : f \in Permutations(1 .. Len(seq)) }

\* C8: in a dispatch in which a leaf schedules its deletion, the counter is
\* unchanged, every leaf stays alive, every other subscribed leaf runs its
\* handler exactly once, and the outcome is the same for every delivery order.
C8_DeferredAndOncePerDispatch ==
    [][\A k \in Leaves :
          deleteLaterCalls'[k] > deleteLaterCalls[k] =>
              /\ entityCounter' = entityCounter
              /\ \A l \in Leaves : Alive(l) => Alive(l)'
              /\ \A l \in Leaves \ {k} : Connections(l) > 0 => handlerRuns'[l] = 1
              /\ \A o \in Orders(timerConnections), jit \in [Leaves -> Jitters] :
                    Dispatch(o, BeforeDispatch, jit) =
                        Dispatch(timerConnections, BeforeDispatch, jit)]_vars

\* C9: fallAndDie() is idempotent: a leaf holds one connection however often
\* it was invoked, and a tick runs the leaf's handler once.
C9_FallAndDieIdempotent ==
    \A l \in Leaves : Connections(l) <= 1 /\ handlerRuns[l] <= 1

\* C10: for a falling leaf end - start is (0, 0.5, 0), so every rotate() of
\* the tick handler sees the branch direction up and uses the fallback axis.
C10_FallVectorIsUp ==
    /\ [](\A l \in Leaves :
            Falling(l) =>
               VSub(EndPos(leaf[l], branch[l]), StartPos(leaf[l], branch[l]))
                  = <<0, 50, 0>>)
    /\ [][\A l \in Leaves :
            (Falling(l) /\ handlerRuns'[l] >= 1
                /\ EndPos(leaf[l], branch[l])[2] > 0) =>
                /\ leaf'[l].rotation.set
                /\ leaf'[l].rotation.branch = UpDir
                /\ leaf'[l].rotation.axis = FallbackAxis]_vars

C10_Witness ==
    \E l \in Leaves :
        /\ Falling(l)
        /\ handlerRuns[l] >= 1
        /\ leaf[l].fallVectorEndPos = <<3, -1, 4>>
        /\ leaf[l].fallVectorStartPos = <<3, -51, 4>>
        /\ leaf[l].rotation.axis = FallbackAxis

====
